---- MODULE Spec2Model ----
(***************************************************************************)
(* Model of src/blocking/wait.rs: the blocking bridge `timeout(fut, t)`.   *)
(* One calling thread runs one call.  When a tokio handle is ambient the   *)
(* call is delegated (block_in_place + block_on + select!/await); when not *)
(* it runs the poll / park loop with a ThreadWaker.  The future, the       *)
(* clock, extra waker invocations and spurious wakes are the environment.  *)
(***************************************************************************)
EXTENDS Integers, Sequences, FiniteSets

\* ---- bounds of the model ------------------------------------------------
MaxTime == 2        \* the clock runs freely up to here (and on to a deadline)
MaxDur == 2         \* largest timeout duration requested
MaxWakes == 1       \* extra invocations of the waker
MaxSpurious == 1    \* spurious wakes of the parked / blocked thread

\* Option::None for an Option<Duration> / Option<Instant>
None == 0 - 1

\* two distinguishable success values / error values of the future
Values == {1, 2}
Durations == 0..MaxDur

VARIABLES
    hasHandle,      \* Handle::try_current() is Ok on the calling thread
    timeout,        \* the `timeout: Option<Duration>` argument
    futKind,        \* what the future will resolve to: "ok", "err", "never"
    futVal,         \* the value or the error it resolves with
    futState,       \* "pending" or "ready"
    registered,     \* the future holds a clone of the ThreadWaker
    now,            \* the clock (Instant::now())
    pc,             \* position of the calling thread
    deadline,       \* `deadline` of the self-contained path (line 30)
    sleepDeadline,  \* deadline of tokio::time::sleep(actual_timeout) (line 21)
    parkDur,        \* `deadline - now` handed to park_timeout (line 62)
    parkEnd,        \* the instant at which the running park_timeout elapses
    token,          \* the park token of the calling thread (set by unpark)
    inBlocking,     \* the thread is inside block_in_place's section
    reported,       \* the values the call has returned, in order
    lastPoll,       \* result of the most recent poll: "none", "pending", "ready"
    polls,          \* number of polls of the future
    parks,          \* number of times the thread actually parked
    wakes,          \* extra waker invocations so far
    spurious,       \* spurious wakes so far
    entryTime,      \* clock at entry of the call
    resolvedAt,     \* clock at which the future resolved
    readyAtEntry    \* the future was already resolved when the call started

vars == << hasHandle, timeout, futKind, futVal, futState, registered, now, pc,
           deadline, sleepDeadline, parkDur, parkEnd, token, inBlocking,
           reported, lastPoll, polls, parks, wakes, spurious, entryTime,
           resolvedAt, readyAtEntry >>

\* the call's arguments and the future's script never change
args == << hasHandle, timeout, futKind, futVal >>
\* bookkeeping of the environment
envv == << wakes, spurious, resolvedAt >>

\* ---- the three-way result -----------------------------------------------
\* Result<I, E> of the future
FutOk(v) == [tag |-> "Ok", val |-> v]
FutErr(e) == [tag |-> "Err", val |-> e]
\* Result<I, Waited<E>> of the call
Ok(v) == [tag |-> "Ok", val |-> v]
Inner(e) == [tag |-> "Inner", val |-> e]
TimedOut == [tag |-> "TimedOut", val |-> 0]

\* what the future yields once it is ready
Output == IF futKind = "err" THEN FutErr(futVal) ELSE FutOk(futVal)

\* a map_err that answers a failure of the future with TimedOut
map_err_AsTimedOut(res) == IF res.tag = "Err" THEN TimedOut ELSE Ok(res.val)

\* result.map_err(|e| Waited::Inner(e))
map_err(res) == IF res.tag = "Err" THEN Inner(res.val) ELSE Ok(res.val)

\* Ready arms that answer a failure of the future with TimedOut
Returned_ErrAsTimedOut(res) == IF res.tag = "Ok" THEN Ok(res.val) ELSE TimedOut

\* Poll::Ready(Ok(val)) => return Ok(val),
\* Poll::Ready(Err(err)) => return Err(Waited::Inner(err))
Returned(res) == IF res.tag = "Ok" THEN Ok(res.val) ELSE Inner(res.val)

TypeOK ==
    /\ hasHandle \in BOOLEAN
    /\ timeout \in Durations \cup {None}
    /\ futKind \in {"ok", "err", "never"}
    /\ futVal \in Values
    /\ futState \in {"pending", "ready"}
    /\ registered \in BOOLEAN
    /\ now \in Nat
    /\ token \in BOOLEAN
    /\ inBlocking \in BOOLEAN
    /\ lastPoll \in {"none", "pending", "ready"}

Init ==
    /\ hasHandle \in BOOLEAN
    /\ timeout \in Durations \cup {None}
    /\ futKind \in {"ok", "err", "never"}
    /\ futVal \in Values
    /\ futState \in (IF futKind = "never" THEN {"pending"} ELSE {"pending", "ready"})
    /\ registered = FALSE
    /\ now = 0
    /\ pc = "entry"
    /\ deadline = None
    /\ sleepDeadline = None
    /\ parkDur = None
    /\ parkEnd = None
    /\ token \in BOOLEAN
    /\ inBlocking = FALSE
    /\ reported = << >>
    /\ lastPoll = "none"
    /\ polls = 0
    /\ parks = 0
    /\ wakes = 0
    /\ spurious = 0
    /\ entryTime = None
    /\ resolvedAt = IF futState = "ready" THEN 0 ELSE None
    /\ readyAtEntry = FALSE

\* ---- Runtime Detector (lines 14-15) -------------------------------------
Entry ==
    /\ pc = "entry"
    /\ pc' = IF hasHandle THEN "block_in_place" ELSE "deadline"
    /\ entryTime' = now
    /\ readyAtEntry' = (futState = "ready")
    /\ UNCHANGED << args, futState, registered, now, deadline, sleepDeadline,
                    parkDur, parkEnd, token, inBlocking, reported, lastPoll,
                    polls, parks, envv >>

\* ---- Self-Contained Executor (lines 30-67) ------------------------------
\* a deadline computed with unwrap_or_default() in place of map()
ComputeDeadline_NoneAsZero ==
    /\ pc = "deadline"
    /\ deadline' = IF timeout = None THEN now ELSE now + timeout
    /\ pc' = "waker"
    /\ UNCHANGED << args, futState, registered, now, sleepDeadline, parkDur,
                    parkEnd, token, inBlocking, reported, lastPoll, polls,
                    parks, envv, entryTime, readyAtEntry >>

\* let deadline = timeout.map(|d| Instant::now() + d)
ComputeDeadline ==
    /\ pc = "deadline"
    /\ deadline' = IF timeout = None THEN None ELSE now + timeout
    /\ pc' = "waker"
    /\ UNCHANGED << args, futState, registered, now, sleepDeadline, parkDur,
                    parkEnd, token, inBlocking, reported, lastPoll, polls,
                    parks, envv, entryTime, readyAtEntry >>

\* a loop that starts with the deadline comparison and the park, not the poll
MakeWaker_CheckFirst ==
    /\ pc = "waker"
    /\ pc' = "check"
    /\ UNCHANGED << args, futState, registered, now, deadline, sleepDeadline,
                    parkDur, parkEnd, token, inBlocking, reported, lastPoll,
                    polls, parks, envv, entryTime, readyAtEntry >>

\* ThreadWaker(thread::current()), waker(Arc::new(thread)), Context::from_waker
MakeWaker ==
    /\ pc = "waker"
    /\ pc' = "poll"
    /\ UNCHANGED << args, futState, registered, now, deadline, sleepDeadline,
                    parkDur, parkEnd, token, inBlocking, reported, lastPoll,
                    polls, parks, envv, entryTime, readyAtEntry >>

\* a wake_by_ref that unparks thread::current(), the waking thread, and so
\* leaves the waiting thread's token alone
wake_by_ref_Current ==
    token' = token

\* ThreadWaker::wake_by_ref: arc_self.0.unpark() makes the park token available
wake_by_ref ==
    token' = TRUE

\* a poll whose Ready arms lack the `return`: the value is produced and the
\* loop falls through to the deadline check
Poll_Fallthrough ==
    /\ pc = "poll"
    /\ polls' = polls + 1
    /\ IF futState = "ready"
       THEN /\ reported' = Append(reported, Returned(Output))
            /\ lastPoll' = "ready"
            /\ UNCHANGED registered
       ELSE /\ registered' = TRUE
            /\ lastPoll' = "pending"
            /\ UNCHANGED reported
    /\ pc' = "check"
    /\ UNCHANGED << args, futState, now, deadline, sleepDeadline, parkDur,
                    parkEnd, token, inBlocking, parks, envv, entryTime,
                    readyAtEntry >>

\* a loop that computes the deadline inside the loop: every Pending poll
\* moves it to now + timeout
Poll_SlidingDeadline ==
    /\ pc = "poll"
    /\ polls' = polls + 1
    /\ IF futState = "ready"
       THEN /\ reported' = Append(reported, Returned(Output))
            /\ lastPoll' = "ready"
            /\ pc' = "done"
            /\ UNCHANGED << registered, deadline >>
       ELSE /\ registered' = TRUE
            /\ lastPoll' = "pending"
            /\ pc' = "check"
            /\ deadline' = IF timeout = None THEN None ELSE now + timeout
            /\ UNCHANGED reported
    /\ UNCHANGED << args, futState, now, sleepDeadline, parkDur,
                    parkEnd, token, inBlocking, parks, envv, entryTime,
                    readyAtEntry >>

\* match fut.as_mut().poll(&mut cx): Ready returns, Pending falls through.
\* A pending future keeps a clone of the waker taken from cx.
Poll ==
    /\ pc = "poll"
    /\ polls' = polls + 1
    /\ IF futState = "ready"
       THEN /\ reported' = Append(reported, Returned(Output))
            /\ lastPoll' = "ready"
            /\ pc' = "done"
            /\ UNCHANGED registered
       ELSE /\ registered' = TRUE
            /\ lastPoll' = "pending"
            /\ pc' = "check"
            /\ UNCHANGED reported
    /\ UNCHANGED << args, futState, now, deadline, sleepDeadline, parkDur,
                    parkEnd, token, inBlocking, parks, envv, entryTime,
                    readyAtEntry >>

\* a wait that parks for the whole timeout instead of the remaining duration
CheckDeadline_ParkFull ==
    /\ pc = "check"
    /\ IF deadline # None /\ now >= deadline
       THEN /\ reported' = Append(reported, TimedOut)
            /\ pc' = "done"
            /\ UNCHANGED parkDur
       ELSE /\ parkDur' = IF deadline # None THEN timeout ELSE None
            /\ pc' = "park"
            /\ UNCHANGED reported
    /\ UNCHANGED << args, futState, registered, now, deadline, sleepDeadline,
                    parkEnd, token, inBlocking, lastPoll, polls, parks, envv,
                    entryTime, readyAtEntry >>

\* a deadline comparison that is one clock unit early
CheckDeadline_Early ==
    /\ pc = "check"
    /\ IF deadline # None /\ now + 1 >= deadline
       THEN /\ reported' = Append(reported, TimedOut)
            /\ pc' = "done"
            /\ UNCHANGED parkDur
       ELSE /\ parkDur' = IF deadline # None THEN deadline - now ELSE None
            /\ pc' = "park"
            /\ UNCHANGED reported
    /\ UNCHANGED << args, futState, registered, now, deadline, sleepDeadline,
                    parkEnd, token, inBlocking, lastPoll, polls, parks, envv,
                    entryTime, readyAtEntry >>

\* a deadline branch that lacks the `return`: TimedOut is produced and the
\* thread parks for the (empty) remaining duration
CheckDeadline_NoReturn ==
    /\ pc = "check"
    /\ IF deadline # None /\ now >= deadline
       THEN /\ reported' = Append(reported, TimedOut)
            /\ parkDur' = 0
       ELSE /\ parkDur' = IF deadline # None THEN deadline - now ELSE None
            /\ UNCHANGED reported
    /\ pc' = "park"
    /\ UNCHANGED << args, futState, registered, now, deadline, sleepDeadline,
                    parkEnd, token, inBlocking, lastPoll, polls, parks, envv,
                    entryTime, readyAtEntry >>

\* if let Some(deadline) = deadline { let now = Instant::now();
\*   if now >= deadline { return Err(TimedOut) } ... deadline - now } else { park }
CheckDeadline ==
    /\ pc = "check"
    /\ IF deadline # None /\ now >= deadline
       THEN /\ reported' = Append(reported, TimedOut)
            /\ pc' = "done"
            /\ UNCHANGED parkDur
       ELSE /\ parkDur' = IF deadline # None THEN deadline - now ELSE None
            /\ pc' = "park"
            /\ UNCHANGED reported
    /\ UNCHANGED << args, futState, registered, now, deadline, sleepDeadline,
                    parkEnd, token, inBlocking, lastPoll, polls, parks, envv,
                    entryTime, readyAtEntry >>

\* a wait that clears the wake flag before it blocks
ParkEnter_DropToken ==
    /\ pc = "park"
    /\ token' = FALSE
    /\ pc' = "parked"
    /\ parkEnd' = IF parkDur = None THEN None ELSE now + parkDur
    /\ parks' = parks + 1
    /\ UNCHANGED << args, futState, registered, now, deadline, sleepDeadline,
                    parkDur, inBlocking, reported, lastPoll, polls, envv,
                    entryTime, readyAtEntry >>

\* a wait that takes a park_timeout that returns at once for the timeout
ParkEnter_TokenAsTimeout ==
    /\ pc = "park"
    /\ IF token
       THEN /\ token' = FALSE
            /\ reported' = Append(reported, TimedOut)
            /\ pc' = "done"
            /\ UNCHANGED << parkEnd, parks >>
       ELSE /\ pc' = "parked"
            /\ parkEnd' = IF parkDur = None THEN None ELSE now + parkDur
            /\ parks' = parks + 1
            /\ UNCHANGED << token, reported >>
    /\ UNCHANGED << args, futState, registered, now, deadline, sleepDeadline,
                    parkDur, inBlocking, lastPoll, polls, envv,
                    entryTime, readyAtEntry >>

\* thread::park_timeout(deadline - now) / thread::park(): a token that is
\* already available is consumed and the call returns at once; otherwise the
\* thread blocks.
ParkEnter ==
    /\ pc = "park"
    /\ IF token
       THEN /\ token' = FALSE
            /\ pc' = "poll"
            /\ UNCHANGED << parkEnd, parks >>
       ELSE /\ pc' = "parked"
            /\ parkEnd' = IF parkDur = None THEN None ELSE now + parkDur
            /\ parks' = parks + 1
            /\ UNCHANGED token
    /\ UNCHANGED << args, futState, registered, now, deadline, sleepDeadline,
                    parkDur, inBlocking, reported, lastPoll, polls, envv,
                    entryTime, readyAtEntry >>

\* a loop that goes from the wake straight to the deadline comparison
ParkWake_ToCheck ==
    /\ pc = "parked"
    /\ token
    /\ token' = FALSE
    /\ pc' = "check"
    /\ UNCHANGED << args, futState, registered, now, deadline, sleepDeadline,
                    parkDur, parkEnd, inBlocking, reported, lastPoll, polls,
                    parks, envv, entryTime, readyAtEntry >>

\* the parked thread is unparked: the token is consumed, the loop goes round
ParkWake ==
    /\ pc = "parked"
    /\ token
    /\ token' = FALSE
    /\ pc' = "poll"
    /\ UNCHANGED << args, futState, registered, now, deadline, sleepDeadline,
                    parkDur, parkEnd, inBlocking, reported, lastPoll, polls,
                    parks, envv, entryTime, readyAtEntry >>

\* park_timeout's duration has elapsed
ParkTimeout ==
    /\ pc = "parked"
    /\ parkEnd # None
    /\ now >= parkEnd
    /\ pc' = "poll"
    /\ UNCHANGED << args, futState, registered, now, deadline, sleepDeadline,
                    parkDur, parkEnd, token, inBlocking, reported, lastPoll,
                    polls, parks, envv, entryTime, readyAtEntry >>

\* a wait that takes every return of park_timeout for the timeout
ParkSpurious_AsTimeout ==
    /\ pc = "parked"
    /\ spurious < MaxSpurious
    /\ spurious' = spurious + 1
    /\ reported' = Append(reported, TimedOut)
    /\ pc' = "done"
    /\ UNCHANGED << args, futState, registered, now, deadline, sleepDeadline,
                    parkDur, parkEnd, token, inBlocking, lastPoll, polls,
                    parks, wakes, resolvedAt, entryTime, readyAtEntry >>

\* park / park_timeout may return for no reason; the loop (line 43) goes round
ParkSpurious ==
    /\ pc = "parked"
    /\ spurious < MaxSpurious
    /\ spurious' = spurious + 1
    /\ pc' = "poll"
    /\ UNCHANGED << args, futState, registered, now, deadline, sleepDeadline,
                    parkDur, parkEnd, token, inBlocking, reported, lastPoll,
                    polls, parks, wakes, resolvedAt, entryTime, readyAtEntry >>

\* ---- Delegated Driver (lines 16-28) --------------------------------------
\* a delegated path that calls tokio_handle.block_on without block_in_place
EnterBlocking_Skip ==
    /\ pc = "block_in_place"
    /\ pc' = "block_on"
    /\ UNCHANGED << args, futState, registered, now, deadline, sleepDeadline,
                    parkDur, parkEnd, token, inBlocking, reported, lastPoll,
                    polls, parks, envv, entryTime, readyAtEntry >>

\* tokio::task::block_in_place(|| ...): the thread enters the blocking section
EnterBlocking ==
    /\ pc = "block_in_place"
    /\ inBlocking' = TRUE
    /\ pc' = "block_on"
    /\ UNCHANGED << args, futState, registered, now, deadline, sleepDeadline,
                    parkDur, parkEnd, token, reported, lastPoll, polls, parks,
                    envv, entryTime, readyAtEntry >>

\* tokio_handle.block_on(async { if let Some(actual_timeout) = timeout {..} else {..} })
\* tokio::time::sleep(actual_timeout) completes at Instant::now() + actual_timeout
BlockOn ==
    /\ pc = "block_on"
    /\ IF timeout # None
       THEN /\ sleepDeadline' = now + timeout
            /\ pc' = "select"
       ELSE /\ pc' = "await"
            /\ UNCHANGED sleepDeadline
    /\ UNCHANGED << args, futState, registered, now, deadline, parkDur, parkEnd,
                    token, inBlocking, reported, lastPoll, polls, parks, envv,
                    entryTime, readyAtEntry >>

\* the sleep of line 21 is ready once its deadline has been reached
SleepReady ==
    sleepDeadline # None /\ now >= sleepDeadline

\* tokio::select! without `biased;` starts at a branch picked at random and
\* takes the first branch that is ready: "fut", "sleep" or "pending"
SelectWinner(first) ==
    IF first = "fut"
    THEN IF futState = "ready" THEN "fut"
         ELSE IF SleepReady THEN "sleep" ELSE "pending"
    ELSE IF SleepReady THEN "sleep"
         ELSE IF futState = "ready" THEN "fut" ELSE "pending"

\* the branches select! may start from (line 19: no `biased;`)
SelectStarts == {"fut", "sleep"}

\* one poll of the select! of lines 19-22
SelectPoll ==
    /\ pc = "select"
    /\ \E first \in SelectStarts :
         LET w == SelectWinner(first)
             polled == (first = "fut") \/ ~SleepReady
         IN /\ polls' = IF polled THEN polls + 1 ELSE polls
            /\ lastPoll' = IF ~polled THEN lastPoll
                           ELSE IF futState = "ready" THEN "ready" ELSE "pending"
            /\ IF w = "fut"
               THEN /\ reported' = Append(reported, map_err(Output))
                    /\ pc' = "leave"
               ELSE IF w = "sleep"
               THEN /\ reported' = Append(reported, TimedOut)
                    /\ pc' = "leave"
               ELSE /\ pc' = "blocked"
                    /\ UNCHANGED reported
    /\ UNCHANGED << args, futState, registered, now, deadline, sleepDeadline,
                    parkDur, parkEnd, token, inBlocking, parks, envv, entryTime,
                    readyAtEntry >>

\* fut.await.map_err(|e| Waited::Inner(e))  (line 24)
AwaitPoll ==
    /\ pc = "await"
    /\ polls' = polls + 1
    /\ IF futState = "ready"
       THEN /\ reported' = Append(reported, map_err(Output))
            /\ lastPoll' = "ready"
            /\ pc' = "leave"
       ELSE /\ lastPoll' = "pending"
            /\ pc' = "blocked"
            /\ UNCHANGED reported
    /\ UNCHANGED << args, futState, registered, now, deadline, sleepDeadline,
                    parkDur, parkEnd, token, inBlocking, parks, envv, entryTime,
                    readyAtEntry >>

\* block_on polls the async block again when the future or the timer wakes it
BlockedWake ==
    /\ pc = "blocked"
    /\ futState = "ready" \/ SleepReady
    /\ pc' = IF timeout = None THEN "await" ELSE "select"
    /\ UNCHANGED << args, futState, registered, now, deadline, sleepDeadline,
                    parkDur, parkEnd, token, inBlocking, reported, lastPoll,
                    polls, parks, envv, entryTime, readyAtEntry >>

\* ... or for no reason
BlockedSpurious ==
    /\ pc = "blocked"
    /\ spurious < MaxSpurious
    /\ spurious' = spurious + 1
    /\ pc' = IF timeout = None THEN "await" ELSE "select"
    /\ UNCHANGED << args, futState, registered, now, deadline, sleepDeadline,
                    parkDur, parkEnd, token, inBlocking, reported, lastPoll,
                    polls, parks, wakes, resolvedAt, entryTime, readyAtEntry >>

\* block_on and block_in_place return the async block's value (line 16: return)
LeaveBlocking ==
    /\ pc = "leave"
    /\ inBlocking' = FALSE
    /\ pc' = "done"
    /\ UNCHANGED << args, futState, registered, now, deadline, sleepDeadline,
                    parkDur, parkEnd, token, reported, lastPoll, polls, parks,
                    envv, entryTime, readyAtEntry >>

\* ---- environment ---------------------------------------------------------
\* the future's source completes; a future that returned Pending wakes the
\* waker it was polled with.  (A future resolved before the call starts
\* is one that Init makes ready.)
Resolve ==
    /\ pc # "entry"
    /\ futKind # "never"
    /\ futState = "pending"
    /\ futState' = "ready"
    /\ resolvedAt' = now
    /\ IF registered THEN wake_by_ref ELSE UNCHANGED token
    /\ UNCHANGED << args, registered, now, pc, deadline, sleepDeadline, parkDur,
                    parkEnd, inBlocking, reported, lastPoll, polls, parks,
                    wakes, spurious, entryTime, readyAtEntry >>

\* any holder of a clone of the waker invokes it, from any thread, at any time
Wake ==
    /\ registered
    /\ wakes < MaxWakes
    /\ wakes' = wakes + 1
    /\ wake_by_ref
    /\ UNCHANGED << args, futState, registered, now, pc, deadline, sleepDeadline,
                    parkDur, parkEnd, inBlocking, reported, lastPoll, polls,
                    parks, spurious, resolvedAt, entryTime, readyAtEntry >>

\* a clone of the waker of an earlier call on this thread is invoked while the
\* future of this call has not registered a waker yet.  (A token left over
\* from before the call is one that Init makes available; the delegated path
\* does not use the thread's park token.)
StaleWake ==
    /\ ~hasHandle
    /\ pc \notin {"entry", "done"}
    /\ ~registered
    /\ wakes < MaxWakes
    /\ wakes' = wakes + 1
    /\ wake_by_ref
    /\ UNCHANGED << args, futState, registered, now, pc, deadline, sleepDeadline,
                    parkDur, parkEnd, inBlocking, reported, lastPoll, polls,
                    parks, spurious, resolvedAt, entryTime, readyAtEntry >>

\* the deadline the running call compares the clock with, if any
Due == IF hasHandle THEN sleepDeadline ELSE deadline

\* the clock advances, counted from the entry of the call; it stops at MaxTime
\* unless a deadline or the end of a running park_timeout is still ahead
Tick ==
    /\ pc # "entry"
    /\ \/ now < MaxTime
       \/ Due # None /\ now < Due
       \/ pc = "parked" /\ parkEnd # None /\ now < parkEnd
    /\ now' = now + 1
    /\ UNCHANGED << args, futState, registered, pc, deadline, sleepDeadline,
                    parkDur, parkEnd, token, inBlocking, reported, lastPoll,
                    polls, parks, envv, entryTime, readyAtEntry >>

\* the steps of the calling thread
Thread ==
    \/ Entry
    \/ ComputeDeadline
    \/ MakeWaker
    \/ Poll
    \/ CheckDeadline
    \/ ParkEnter
    \/ ParkWake
    \/ EnterBlocking
    \/ BlockOn
    \/ SelectPoll
    \/ AwaitPoll
    \/ BlockedWake
    \/ LeaveBlocking

Next ==
    \/ Thread
    \/ ParkTimeout
    \/ ParkSpurious
    \/ BlockedSpurious
    \/ Resolve
    \/ Wake
    \/ StaleWake
    \/ Tick

Spec == Init /\ [][Next]_vars

\* the thread is scheduled, the clock advances, timers fire; nothing promises
\* a spurious wake, an extra waker invocation or that the future resolves
FairSpec ==
    /\ Spec
    /\ WF_vars(Thread)
    /\ WF_vars(ParkTimeout)
    /\ WF_vars(Tick)

\* ---- properties -----------------------------------------------------------
\* the call has returned r
Reported(r) == \E i \in 1..Len(reported) : reported[i] = r

\* the result the future's outcome translates to: Ok(v) or Err(Inner(e))
Expected == IF futKind = "err" THEN Inner(futVal) ELSE Ok(futVal)

\* the thread is at a step that checks the future (a poll, the select!, the await)
AtCheck == pc \in {"poll", "select", "await"}

\* C1: every call that returns produces exactly one of Ok(v), Err(TimedOut),
\* Err(Inner(e)), and it returns at most once, on both paths.
C1_ExactlyOneOutcome ==
    /\ Len(reported) <= 1
    /\ pc = "done" => Len(reported) = 1
    /\ \A i \in 1..Len(reported) :
         \/ reported[i] = TimedOut
         \/ \E v \in Values : reported[i] = Ok(v)
         \/ \E e \in Values : reported[i] = Inner(e)

C1_Witness ==
    /\ pc = "done"
    /\ reported = << TimedOut >>
    /\ futState = "ready"

\* C2: with no timeout requested the call never returns TimedOut, and when it
\* returns it returns the future's outcome, whatever wakes happened.
C2_NoTimeoutReturnsOutcome ==
    timeout = None =>
        /\ ~Reported(TimedOut)
        /\ pc = "done" => reported = << Expected >>

C2_Witness ==
    /\ timeout = None
    /\ pc = "done"
    /\ reported = << Expected >>
    /\ wakes > 0
    /\ spurious > 0

\* C3 as stated, for the self-contained path: a future that resolved strictly
\* before the deadline is never answered with TimedOut, however late the
\* thread is scheduled.  (The select! of the delegated path breaks it too,
\* by taking the sleep branch when both branches are ready.)
C3_RaceDeterminism ==
    (~hasHandle /\ resolvedAt # None /\ deadline # None /\ resolvedAt < deadline)
        => ~Reported(TimedOut)

\* C3 amended: when the strategy checks the future (a poll, the select!) after
\* it resolved and while the clock is still before the deadline, the call
\* returns the future's outcome.
C3_CheckedBeforeDeadline ==
    [][(AtCheck /\ pc' # pc /\ futState = "ready" /\ Due # None /\ now < Due)
          => reported' = << Expected >>]_vars

C3_Witness ==
    /\ pc \in {"done", "leave"}
    /\ reported = << Expected >>
    /\ ~readyAtEntry
    /\ Due # None
    /\ resolvedAt # None
    /\ resolvedAt < Due
    /\ now < Due

\* C4: whenever one check sees both the future ready and the timeout elapsed,
\* the call returns the future's outcome, in the loop and in the select!.
C4_TieBreak ==
    [][(AtCheck /\ pc' # pc /\ futState = "ready" /\ Due # None /\ now >= Due)
          => reported' = << Expected >>]_vars

\* C5: a future that never resolves, with a timeout D: the call eventually
\* returns TimedOut, and TimedOut is never returned before entry-time + D.
C5_NeverResolvingTimesOut ==
    /\ [](Reported(TimedOut) => (timeout # None /\ now >= entryTime + timeout))
    /\ ((futKind = "never" /\ timeout # None) ~> (pc = "done" /\ reported = << TimedOut >>))

C5_Witness ==
    /\ futKind = "never"
    /\ timeout = MaxDur
    /\ pc = "done"
    /\ reported = << TimedOut >>
    /\ wakes > 0
    /\ spurious > 0

\* C6: no lost wakeup in the loop: a thread parked while the future is ready
\* holds the wake token, a park entered with the token returns to the poll at
\* once, and a ready future is always polled again.
C6_NoLostWakeup ==
    /\ []((pc = "parked" /\ futState = "ready") => token)
    /\ [][(pc = "park" /\ token /\ pc' # pc) => pc' = "poll"]_vars
    /\ ((futState = "ready" /\ (pc \in {"park", "parked"} \/ (pc = "check" /\ deadline = None)))
           ~> lastPoll = "ready")

C6_Witness ==
    /\ pc = "poll"
    /\ futState = "ready"
    /\ lastPoll = "pending"
    /\ parks = 0
    /\ wakes = MaxWakes

\* C7: a spurious wake never makes the call return; TimedOut is returned only
\* at or past the deadline and an outcome only after a poll that was Ready.
C7_SpuriousWakeTolerance ==
    /\ [][spurious' # spurious => (reported' = reported /\ AtCheck')]_vars
    /\ [](Reported(TimedOut) => (Due # None /\ now >= Due))
    /\ [](Reported(Expected) => lastPoll = "ready")

C7_Witness ==
    /\ ~hasHandle
    /\ spurious = MaxSpurious
    /\ pc = "done"
    /\ reported = << TimedOut >>

\* C8: no timeout, future resolves to success after a delay: the call does not
\* return before the resolution and eventually returns that success.
C8_BlocksUntilResolution ==
    /\ []((timeout = None /\ reported # << >>) => futState = "ready")
    /\ ((timeout = None /\ futKind = "ok" /\ futState = "ready")
           ~> (pc = "done" /\ reported = << Ok(futVal) >>))

C8_Witness ==
    /\ timeout = None
    /\ futKind = "ok"
    /\ ~readyAtEntry
    /\ parks > 0
    /\ resolvedAt > entryTime
    /\ entryTime # None
    /\ pc = "done"
    /\ reported = << Ok(futVal) >>

\* C9: once TimedOut is decided the future is not polled again and a later
\* resolution is not reported; once a poll was Ready, TimedOut is not reported.
C9_DecisionIsFinal ==
    [][/\ Reported(TimedOut) =>
            (reported' = reported /\ polls' = polls /\ lastPoll' = lastPoll)
       /\ lastPoll = "ready" => ~Reported(TimedOut)']_vars

C9_Witness ==
    /\ pc = "done"
    /\ reported = << TimedOut >>
    /\ futState = "ready"
    /\ Due # None
    /\ resolvedAt > Due

\* the results the self-contained path returns for a future behaviour and a
\* timeout: the outcome alone when the future is ready at entry or no timeout
\* is given, TimedOut alone when it never resolves, either one otherwise
SelfResults ==
    IF readyAtEntry \/ timeout = None THEN {Expected}
    ELSE IF futKind = "never" THEN {TimedOut}
    ELSE {Expected, TimedOut}

\* what the self-contained path returns is in SelfResults
SelfResultsSound ==
    (~hasHandle /\ pc = "done") => reported[1] \in SelfResults

\* C10: both strategies return the same set of results for the same future
\* behaviour and timeout: a result of either path is a result of the loop.
C10_Interchangeable ==
    pc = "done" => reported[1] \in SelfResults

\* C11: outcome translation passes values through unchanged: Ok(v) carries the
\* future's success value, Err(Inner(e)) the future's error; a Ready poll is
\* never answered with TimedOut or with the other kind, and nothing but Ok,
\* TimedOut and Inner is returned, on either path.
C11_PassThrough ==
    /\ \A i \in 1..Len(reported) :
         /\ reported[i].tag \in {"Ok", "Inner", "TimedOut"}
         /\ reported[i].tag = "Ok" => (futKind = "ok" /\ reported[i].val = futVal)
         /\ reported[i].tag = "Inner" => (futKind = "err" /\ reported[i].val = futVal)
    /\ lastPoll = "ready" => reported = << Expected >>

C11_Witness ==
    /\ pc = "done"
    /\ futKind = "err"
    /\ futVal = 2
    /\ timeout # None
    /\ resolvedAt > 0
    /\ reported = << Inner(2) >>

C13_ParkEndsByDeadline ==
    (pc = "parked" /\ parkEnd # None) => parkEnd <= deadline

\* C13 amended: after a Pending poll, a clock at or past the deadline returns
\* TimedOut without parking; otherwise the thread parks with the duration
\* deadline - now of that clock reading (no bound without a deadline).  The
\* duration is positive and at most the timeout, and it runs from the moment
\* the park starts, so the park's time bound elapses at the deadline or later.
C13_WaitingStep ==
    /\ [][(pc = "check" /\ pc' # pc) =>
            IF deadline # None /\ now >= deadline
            THEN pc' = "done" /\ reported' = << TimedOut >> /\ parks' = parks
            ELSE /\ pc' = "park"
                 /\ reported' = reported
                 /\ parkDur' = IF deadline = None THEN None ELSE deadline - now]_vars
    /\ [](pc \in {"park", "parked"} =>
            IF deadline = None THEN parkDur = None
            ELSE parkDur >= 1 /\ parkDur <= timeout)
    /\ [](pc = "parked" =>
            IF deadline = None THEN parkEnd = None
            ELSE parkEnd >= deadline)

C13_Witness ==
    /\ pc = "parked"
    /\ deadline # None
    /\ parkDur < timeout
    /\ parkEnd > deadline

\* C14: the deadline is computed once, as now + duration at line 32, and no
\* poll, park, waker invocation or wake changes it afterwards.
C14_DeadlineImmutable ==
    [][/\ pc # "deadline" => deadline' = deadline
       /\ (pc = "deadline" /\ pc' # pc) =>
            deadline' = IF timeout = None THEN None ELSE now + timeout]_vars

C14_Witness ==
    /\ ~hasHandle
    /\ timeout = MaxDur
    /\ deadline = entryTime + timeout + 1
    /\ polls >= 3
    /\ wakes > 0
    /\ spurious > 0
    /\ pc = "done"
    /\ reported = << TimedOut >>

\* the positions of the self-contained path
SelfPcs == {"deadline", "waker", "poll", "check", "park", "parked"}

\* the positions inside block_in_place's closure
BlockingPcs == {"block_on", "select", "await", "blocked", "leave"}

\* C15: with no timeout and a future that never resolves the call never
\* returns, whatever wakes the thread: no result is ever produced.
C15_NeverReturns ==
    (timeout = None /\ futKind = "never") =>
        /\ reported = << >>
        /\ pc \notin {"done", "leave"}

C15_Witness ==
    /\ ~hasHandle
    /\ timeout = None
    /\ futKind = "never"
    /\ wakes = MaxWakes
    /\ spurious = MaxSpurious
    /\ polls >= 3
    /\ pc = "parked"

\* C16: with an ambient handle the thread enters the blocking section before
\* it submits the future, polls and blocks only inside it, and never runs or
\* parks in the self-contained loop.
C16_DelegatedProtocol ==
    /\ hasHandle =>
         /\ pc \notin SelfPcs
         /\ pc \in BlockingPcs => inBlocking
         /\ (polls > 0 /\ pc # "done") => inBlocking
         /\ parks = 0
         /\ deadline = None
         /\ ~registered
    /\ ~hasHandle => (~inBlocking /\ pc \notin BlockingPcs)

C16_Witness ==
    /\ hasHandle
    /\ pc = "blocked"
    /\ inBlocking
    /\ polls = 2
    /\ futState = "pending"

\* C17: in the loop TimedOut is returned only after at least one poll and only
\* when the most recent poll was Pending; with a zero timeout the future is
\* polled exactly once, and a future ready on that poll yields its outcome.
C17_PollBeforeTimeout ==
    ~hasHandle =>
        /\ Reported(TimedOut) => (polls >= 1 /\ lastPoll = "pending")
        /\ (timeout = 0 /\ pc = "done") => polls = 1
        /\ (timeout = 0 /\ lastPoll = "ready") => reported = << Expected >>

C17_Witness ==
    /\ ~hasHandle
    /\ timeout = 0
    /\ ~readyAtEntry
    /\ pc = "done"
    /\ polls = 1
    /\ lastPoll = "ready"
    /\ reported = << Expected >>

\* C18: in the loop the future is never polled after a Ready poll, the thread
\* parks only directly after a Pending poll, and every return of a park leads
\* to exactly one poll before the next deadline comparison or park.
C18_LoopOrder ==
    /\ []((~hasHandle /\ pc \in {"check", "park", "parked"}) => lastPoll = "pending")
    /\ [][~hasHandle =>
            /\ lastPoll = "ready" => polls' = polls
            /\ (pc \in {"park", "parked"} /\ pc' \notin {"park", "parked"}) =>
                   (pc' = "poll" /\ polls' = polls)
            /\ (pc = "poll" /\ pc' # pc) =>
                   (polls' = polls + 1 /\ pc' \in {"check", "done"})
            /\ (pc' = "check" /\ pc # "check") => pc = "poll"
            /\ (pc' = "park" /\ pc # "park") => pc = "check"]_vars

C18_Witness ==
    /\ ~hasHandle
    /\ parks >= 2
    /\ polls >= 3
    /\ lastPoll = "ready"
    /\ pc = "done"

\* C19: a wake token left on the thread by an earlier call, or a late
\* invocation of an earlier waker, only makes a park return at once: taking
\* the token leads to a poll and reports nothing, and the result of the call
\* is the outcome of a Ready poll or TimedOut at or past its own deadline.
C19_StaleWakeHarmless ==
    /\ [][(token /\ ~token') =>
            (pc' = "poll" /\ reported' = reported /\ polls' = polls)]_vars
    /\ []((~hasHandle /\ pc = "done") =>
            \/ reported = << Expected >> /\ lastPoll = "ready" /\ futState = "ready"
            \/ /\ reported = << TimedOut >>
               /\ lastPoll = "pending"
               /\ deadline # None
               /\ now >= deadline)

C19_Witness ==
    /\ ~hasHandle
    /\ pc = "done"
    /\ reported = << TimedOut >>
    /\ futState = "pending"
    /\ polls = 2
    /\ parks = 0
    /\ wakes = 0
    /\ spurious = 0

====
